---- MODULE Spec2Model ----
(***************************************************************************)
(* Client-side state synchronisation of the book/quote tracker (App).     *)
(*                                                                         *)
(* The React component keeps three collections (books, quotes,            *)
(* booksWithQuotes) and a loading flag, loads all three on mount           *)
(* (loadAll), re-fetches some of them after every mutation, and mirrors    *)
(* successful re-fetches into localStorage.  JavaScript runs every         *)
(* continuation to completion, so one action of this module is one         *)
(* continuation: a user gesture up to its first await, or the code that    *)
(* runs when an axios promise settles.                                     *)
(*                                                                         *)
(* Strings the code inspects character by character (trim) are sequences   *)
(* of one-character strings.  A collection is the set of its records: the  *)
(* client never looks at the order of a response.                          *)
(***************************************************************************)
EXTENDS Naturals, Sequences, FiniteSets, TLC

VARIABLES
    books,            \* useState([])  : the books collection
    quotes,           \* useState([])  : the quotes collection
    booksWithQuotes,  \* useState([])  : titles that have quotes
    loading,          \* useState(true)
    cancelled,        \* let cancelled = false (closure of the mount effect)
    loadPc,           \* position of loadAll: "awaiting" Promise.all, or "done"
    localStorage,     \* the three offline-cache entries
    requests,         \* every axios request issued so far, by <<handler invocation, call>>
    ops,              \* every handler invocation so far, in call order
    toast,            \* the last notification raised
    serverBooks,      \* REST API: the stored books
    serverQuotes      \* REST API: the stored quotes

vars == <<books, quotes, booksWithQuotes, loading, cancelled, loadPc,
          localStorage, requests, ops, toast, serverBooks, serverQuotes>>

-----------------------------------------------------------------------------
(* Bounds and input domains *)

\* user gestures (handler invocations) in one run
MaxOps == 1

\* clicks on the Add button in the runs that follow addBook alone
MaxAddBooks == 2

TitleD == <<"D">>
TitleE == <<"E">>
TextQ == <<"q">>
TextR == <<"r">>
Blank == <<" ">>
Empty == <<>>

Keys == {"books", "quotes", "booksWithQuotes"}

Statuses == {"To Read", "Reading", "Completed"}

\* what the user may pick in the status select of a row
StatusInputs == {"Completed"}

\* rating in tenths: 5.0 and 8.5
Book(t, s, r) == [title |-> t, status |-> s, rating |-> r]
Quote(b, t, u, d) == [book_title |-> b, text |-> t, user_id |-> u, discussion |-> d]

InitServerBooks == {Book(TitleD, "To Read", 50)}
InitServerQuotes == {Quote(TitleD, TextQ, 1, Empty)}

\* what the user may have typed into the add-book dialog
BookForms == {Book(Empty, "To Read", 50), Book(Blank, "To Read", 50),
              Book(TitleE, "Reading", 85)}

\* what the user may have typed into the edit-book dialog
EditForms == {Book(Blank, "To Read", 50), Book(TitleE, "Completed", 85)}

\* what the user may have typed into the add-quote dialog
QuoteForms == {[text |-> Blank, discussion |-> Empty, user_id |-> 1],
               [text |-> TextR, discussion |-> <<"d">>, user_id |-> 2]}

Discussions == {<<"d">>}

-----------------------------------------------------------------------------
(* Pure helpers *)

IsSpace(c) == c = " "

RECURSIVE TrimStart(_)
TrimStart(s) ==
    IF s # <<>> /\ IsSpace(Head(s)) THEN TrimStart(Tail(s)) ELSE s

RECURSIVE TrimEnd(_)
TrimEnd(s) ==
    IF s # <<>> /\ IsSpace(s[Len(s)]) THEN TrimEnd(SubSeq(s, 1, Len(s) - 1)) ELSE s

\* a validation that forgets to trim
Trim_None(s) == s

\* String.prototype.trim
Trim(s) == TrimEnd(TrimStart(s))

\* JavaScript truthiness of a string: the empty string is falsy
Truthy(s) == s # <<>>

\* localStorage entries: getItem gives null for a missing key, else a string
NullItem == [kind |-> "null", value |-> {}]
CorruptItem == [kind |-> "corrupt", value |-> {}]

\* JSON.stringify(response.data)
JSONstringify(v) == [kind |-> "json", value |-> v]

\* JSON.parse(cached) throws on a string that is not JSON
JSONparseThrows(item) == item.kind # "json"
JSONparse(item) == item.value

\* if (cached): null is falsy, any stored non-empty string is truthy
CachedTruthy(item) == item.kind # "null"

-----------------------------------------------------------------------------
(* Requests and handler invocations *)

NoBody == [none |-> TRUE]

\* an axios call: op is the index in ops of the handler that issued it (0 for
\* loadAll); status is "sent", then "ok" (2xx received) or "err" (rejected);
\* delivered says that the code awaiting the promise has run, and threw that
\* this code ended by throwing, which rejects the promise of its async function
Request(op, method, url, key, body) ==
    [op |-> op, method |-> method, url |-> url, key |-> key, body |-> body,
     status |-> "sent", data |-> {}, delivered |-> FALSE, threw |-> FALSE]

Get(op, url) == Request(op, "GET", url, <<>>, NoBody)

\* a handler invocation: pc is "invalid" (validation refused it), "declined"
\* (window.confirm answered no), "awaiting" (write in flight), "succeeded" or
\* "failed"
Op(name, pc) == [name |-> name, pc |-> pc]

ReqIds == DOMAIN requests
OpIds == DOMAIN ops

IsGet(i) == requests[i].method = "GET"
IsLoad(i) == requests[i].op = 0

\* a request is named by the invocation that issued it (0 for loadAll) and
\* its place among the axios calls of that invocation (0 for the write of a
\* handler, then 1, 2 for the fetches in call order)
LoadIds == {<<0, 1>>, <<0, 2>>, <<0, 3>>}
WriteId(k) == <<k, 0>>
LoadReq(url) == CHOOSE i \in LoadIds : requests[i].url = url

-----------------------------------------------------------------------------
(* Initial state: the component has mounted and the effect has called       *)
(* loadAll(), which ran up to its await.                                     *)

\* what an earlier session may have left under a key
StaleEntry(key) ==
    CASE key = "books" -> JSONstringify(InitServerBooks)
      [] key = "quotes" -> JSONstringify({})
      [] key = "booksWithQuotes" -> JSONstringify({TitleD, TitleE})

\* the cache as an earlier session may have left it: never written, holding
\* the snapshots of that session, or overwritten with something that is not JSON
InitialCaches ==
    {[k \in Keys |-> NullItem], [k \in Keys |-> CorruptItem],
     [k \in Keys |-> StaleEntry(k)]}

Init ==
    /\ books = {}
    /\ quotes = {}
    /\ booksWithQuotes = {}
    /\ loading = TRUE
    /\ cancelled = FALSE
    /\ loadPc = "awaiting"
    /\ localStorage \in InitialCaches
    /\ requests = (<<0, 1>> :> Get(0, "books")) @@ (<<0, 2>> :> Get(0, "quotes"))
                      @@ (<<0, 3>> :> Get(0, "booksWithQuotes"))
    /\ ops = <<>>
    /\ toast = "none"
    /\ serverBooks = InitServerBooks
    /\ serverQuotes = InitServerQuotes

-----------------------------------------------------------------------------
(* The REST API *)

\* GET /books, /quotes, /books-with-quotes
ServerSnapshot(url) ==
    CASE url = "books" -> serverBooks
      [] url = "quotes" -> serverQuotes
      [] url = "booksWithQuotes" -> {q.book_title : q \in serverQuotes}

\* PUT /books/{title}: a partial update map
ApplyUpdates(b, u) ==
    Book(IF "title" \in DOMAIN u THEN u.title ELSE b.title,
         IF "status" \in DOMAIN u THEN u.status ELSE b.status,
         IF "rating" \in DOMAIN u THEN u.rating ELSE b.rating)

HasBook(t) == \E b \in serverBooks : b.title = t
HasQuote(k) == \E q \in serverQuotes : <<q.book_title, q.text>> = k

\* the write is refused (404) when its key names nothing
ServerRefuses(r) ==
    \/ r.method \in {"PUT", "DELETE"} /\ r.url = "books" /\ ~HasBook(r.key[1])
    \/ r.method \in {"PUT", "DELETE"} /\ r.url = "quotes" /\ ~HasQuote(r.key)

ServerWrite(r) ==
    CASE r.method = "POST" /\ r.url = "books" ->
            /\ serverBooks' = {b \in serverBooks : b.title # r.body.title} \cup {r.body}
            /\ UNCHANGED serverQuotes
      [] r.method = "PUT" /\ r.url = "books" ->
            /\ LET old == CHOOSE b \in serverBooks : b.title = r.key[1]
                   new == ApplyUpdates(old, r.body)
               IN serverBooks' = {b \in serverBooks : b.title \notin {old.title, new.title}}
                                    \cup {new}
            /\ UNCHANGED serverQuotes
      [] r.method = "DELETE" /\ r.url = "books" ->
            /\ serverBooks' = {b \in serverBooks : b.title # r.key[1]}
            /\ \E cascade \in BOOLEAN :
                  serverQuotes' = IF cascade
                                    THEN {q \in serverQuotes : q.book_title # r.key[1]}
                                    ELSE serverQuotes
      [] r.method = "POST" /\ r.url = "quotes" ->
            /\ serverQuotes' = {q \in serverQuotes :
                                   <<q.book_title, q.text>> # <<r.body.book_title, r.body.text>>}
                                 \cup {r.body}
            /\ UNCHANGED serverBooks
      [] r.method = "PUT" /\ r.url = "quotes" ->
            /\ serverQuotes' = {IF <<q.book_title, q.text>> = r.key
                                  THEN [q EXCEPT !.discussion = r.body.discussion]
                                  ELSE q : q \in serverQuotes}
            /\ UNCHANGED serverBooks
      [] r.method = "DELETE" /\ r.url = "quotes" ->
            /\ serverQuotes' = {q \in serverQuotes : <<q.book_title, q.text>> # r.key}
            /\ UNCHANGED serverBooks

client == <<books, quotes, booksWithQuotes, loading, cancelled, loadPc,
            localStorage, ops, toast>>

\* the server answers request i
ServerReply(i) ==
    /\ requests[i].status = "sent"
    /\ IF IsGet(i)
         THEN /\ requests' = [requests EXCEPT ![i].status = "ok",
                                              ![i].data = ServerSnapshot(requests[i].url)]
              /\ UNCHANGED <<serverBooks, serverQuotes>>
         ELSE IF ServerRefuses(requests[i])
                THEN /\ requests' = [requests EXCEPT ![i].status = "err"]
                     /\ UNCHANGED <<serverBooks, serverQuotes>>
                ELSE /\ requests' = [requests EXCEPT ![i].status = "ok"]
                     /\ ServerWrite(requests[i])
    /\ UNCHANGED client

\* the promise of request i may settle now: fulfilled once the server has
\* answered 2xx, rejected when the server refused or when the request or its
\* response is lost on the way
MaySettle(i, rejected) ==
    /\ ~requests[i].delivered
    /\ IF rejected THEN TRUE ELSE requests[i].status = "ok"

\* the results of loadAll stay in its array of responses; the response of
\* any other request is dropped once the code awaiting it has run
Delivered(i, rejected) ==
    [requests EXCEPT ![i].delivered = TRUE,
                     ![i].status = IF rejected THEN "err" ELSE "ok",
                     ![i].data = IF rejected \/ ~IsLoad(i) THEN {} ELSE requests[i].data]

-----------------------------------------------------------------------------
(* loadAll *)

SetCollection(url, v) ==
    /\ books' = IF url = "books" THEN v ELSE books
    /\ quotes' = IF url = "quotes" THEN v ELSE quotes
    /\ booksWithQuotes' = IF url = "booksWithQuotes" THEN v ELSE booksWithQuotes

\* Promise.all fulfils once every promise has fulfilled; i is the promise
\* settling now
AllFulfilled(i) ==
    \A j \in LoadIds : requests[j].status = "ok" /\ (j = i \/ requests[j].delivered)

\* loadAll without the cancelled checks
LoadAllThen_NoCancelCheck ==
    /\ books' = requests[LoadReq("books")].data
    /\ quotes' = requests[LoadReq("quotes")].data
    /\ booksWithQuotes' = requests[LoadReq("booksWithQuotes")].data
    /\ loading' = FALSE
    /\ UNCHANGED toast

\* loadAll that forgets setBooksWithQuotes
LoadAllThen_Partial ==
    IF cancelled
      THEN UNCHANGED <<books, quotes, booksWithQuotes, loading, toast>>
      ELSE /\ books' = requests[LoadReq("books")].data
           /\ quotes' = requests[LoadReq("quotes")].data
           /\ loading' = FALSE
           /\ UNCHANGED <<booksWithQuotes, toast>>

\* the code after the await, and the finally block
LoadAllThen ==
    IF cancelled
      THEN UNCHANGED <<books, quotes, booksWithQuotes, loading, toast>>
      ELSE /\ books' = requests[LoadReq("books")].data
           /\ quotes' = requests[LoadReq("quotes")].data
           /\ booksWithQuotes' = requests[LoadReq("booksWithQuotes")].data
           /\ loading' = FALSE
           /\ UNCHANGED toast

\* a catch block without the finally block after it
LoadAllCatch_NoFinally ==
    IF cancelled
      THEN UNCHANGED <<books, quotes, booksWithQuotes, loading, toast>>
      ELSE /\ toast' = "Failed to load data"
           /\ UNCHANGED <<books, quotes, booksWithQuotes, loading>>

\* the catch block, and the finally block
LoadAllCatch ==
    IF cancelled
      THEN UNCHANGED <<books, quotes, booksWithQuotes, loading, toast>>
      ELSE /\ toast' = "Failed to load data"
           /\ loading' = FALSE
           /\ UNCHANGED <<books, quotes, booksWithQuotes>>

\* one of the three promises handed to Promise.all settles
LoadAllSettle(i, rejected) ==
    /\ IsLoad(i) /\ MaySettle(i, rejected)
    /\ requests' = Delivered(i, rejected)
    /\ IF loadPc = "awaiting" /\ rejected
         THEN LoadAllCatch /\ loadPc' = "done"
         ELSE IF loadPc = "awaiting" /\ ~rejected /\ AllFulfilled(i)
                THEN LoadAllThen /\ loadPc' = "done"
                ELSE UNCHANGED <<books, quotes, booksWithQuotes, loading, toast, loadPc>>
    /\ UNCHANGED <<cancelled, localStorage, ops, serverBooks, serverQuotes>>

\* the cleanup of the mount effect.  Only loadAll reads `cancelled`, and only
\* after its await: a cleanup that runs once loadAll has finished leaves a run
\* in which the user simply stops acting, so the cleanup is followed while
\* loadAll is awaiting.
Teardown ==
    /\ ~cancelled /\ loadPc = "awaiting"
    /\ cancelled' = TRUE
    /\ UNCHANGED <<books, quotes, booksWithQuotes, loading, loadPc, localStorage,
                   requests, ops, toast, serverBooks, serverQuotes>>

-----------------------------------------------------------------------------
(* fetchBooks, fetchBooksWithQuotes, fetchQuotes *)

FetchFailedToast(url) ==
    CASE url = "books" -> "Failed to fetch books"
      [] url = "quotes" -> "Failed to fetch quotes"
      [] url = "booksWithQuotes" -> "Failed to fetch books with quotes"

\* a try block that stores the response and forgets the state setter
FetchThen_CacheOnly(url, data) ==
    /\ localStorage' = [localStorage EXCEPT ![url] = JSONstringify(data)]
    /\ UNCHANGED <<books, quotes, booksWithQuotes, toast>>

\* a try block of fetchQuotes that also recomputes the cards from the quotes
FetchThen_DerivesCards(url, data) ==
    /\ books' = IF url = "books" THEN data ELSE books
    /\ quotes' = IF url = "quotes" THEN data ELSE quotes
    /\ booksWithQuotes' = IF url = "booksWithQuotes" THEN data
                          ELSE IF url = "quotes" THEN {q.book_title : q \in data}
                          ELSE booksWithQuotes
    /\ localStorage' = [localStorage EXCEPT ![url] = JSONstringify(data)]
    /\ UNCHANGED toast

\* the try block after the await
FetchThen(url, data) ==
    /\ SetCollection(url, data)
    /\ localStorage' = [localStorage EXCEPT ![url] = JSONstringify(data)]
    /\ UNCHANGED toast

\* the catch block reaches JSON.parse(cached) and the stored string is not JSON
FetchCatchThrows(url) ==
    CachedTruthy(localStorage[url]) /\ JSONparseThrows(localStorage[url])

\* a catch block that does not look into the cache
FetchCatch_NoFallback(url) ==
    /\ toast' = FetchFailedToast(url)
    /\ UNCHANGED <<books, quotes, booksWithQuotes, localStorage>>

\* a catch block that empties the collection when nothing is cached
FetchCatch_ClearWhenAbsent(url) ==
    LET cached == localStorage[url]
    IN /\ IF CachedTruthy(cached)
            THEN IF JSONparseThrows(cached)
                   THEN UNCHANGED <<books, quotes, booksWithQuotes>>
                   ELSE SetCollection(url, JSONparse(cached))
            ELSE SetCollection(url, {})
       /\ IF FetchCatchThrows(url)
            THEN UNCHANGED toast
            ELSE toast' = FetchFailedToast(url)
       /\ UNCHANGED localStorage

\* a catch block that restores every collection from the cache
FetchCatch_RestoresAll(url) ==
    LET restored(u, current) ==
            IF CachedTruthy(localStorage[u]) /\ ~JSONparseThrows(localStorage[u])
              THEN JSONparse(localStorage[u])
              ELSE current
    IN /\ books' = restored("books", books)
       /\ quotes' = restored("quotes", quotes)
       /\ booksWithQuotes' = restored("booksWithQuotes", booksWithQuotes)
       /\ IF FetchCatchThrows(url)
            THEN UNCHANGED toast
            ELSE toast' = FetchFailedToast(url)
       /\ UNCHANGED localStorage

\* the catch block; JSON.parse throwing leaves it before toast.error
FetchCatch(url) ==
    LET cached == localStorage[url]
    IN /\ IF CachedTruthy(cached) /\ ~JSONparseThrows(cached)
            THEN SetCollection(url, JSONparse(cached))
            ELSE UNCHANGED <<books, quotes, booksWithQuotes>>
       /\ IF FetchCatchThrows(url)
            THEN UNCHANGED toast
            ELSE toast' = FetchFailedToast(url)
       /\ UNCHANGED localStorage

\* the GET of a refresh settles
FetchSettle(i, rejected) ==
    /\ IsGet(i) /\ ~IsLoad(i) /\ MaySettle(i, rejected)
    /\ requests' = [Delivered(i, rejected) EXCEPT
                       ![i].threw = rejected /\ FetchCatchThrows(requests[i].url)]
    /\ IF ~rejected
         THEN FetchThen(requests[i].url, requests[i].data)
         ELSE FetchCatch(requests[i].url)
    /\ UNCHANGED <<loading, cancelled, loadPc, ops, serverBooks, serverQuotes>>

-----------------------------------------------------------------------------
(* The six mutations *)

\* the fetch functions each handler calls after its write has succeeded
\* addBook without its fetchBooksWithQuotes()
AddBookRefreshes_BooksOnly == <<"books">>
AddBookRefreshes == <<"books", "booksWithQuotes">>
UpdateBookRefreshes == <<"books", "booksWithQuotes">>
\* deleteBook refreshing the cards too, as addBook and updateBook do
DeleteBookRefreshes_WithCards == <<"books", "booksWithQuotes">>
\* deleteBook without its fetchBooks()
DeleteBookRefreshes_None == <<>>
DeleteBookRefreshes == <<"books">>
\* addQuote refreshing books as well
AddQuoteRefreshes_WithBooks == <<"quotes", "booksWithQuotes", "books">>
AddQuoteRefreshes == <<"quotes", "booksWithQuotes">>
\* updateQuoteDiscussion refreshing the cards too, as addQuote does
UpdateQuoteDiscussionRefreshes_WithCards == <<"quotes", "booksWithQuotes">>
UpdateQuoteDiscussionRefreshes == <<"quotes">>
\* deleteQuote without its fetchBooksWithQuotes()
DeleteQuoteRefreshes_QuotesOnly == <<"quotes">>
DeleteQuoteRefreshes == <<"quotes", "booksWithQuotes">>

Refreshes(name) ==
    CASE name = "addBook" -> AddBookRefreshes
      [] name = "updateBook" -> UpdateBookRefreshes
      [] name = "deleteBook" -> DeleteBookRefreshes
      [] name = "addQuote" -> AddQuoteRefreshes
      [] name = "updateQuoteDiscussion" -> UpdateQuoteDiscussionRefreshes
      [] name = "deleteQuote" -> DeleteQuoteRefreshes

SuccessToast(name) ==
    CASE name = "addBook" -> "Book added successfully"
      [] name = "updateBook" -> "Book updated successfully"
      [] name = "deleteBook" -> "Book deleted successfully"
      [] name = "addQuote" -> "Quote added successfully"
      [] name = "updateQuoteDiscussion" -> "Discussion updated"
      [] name = "deleteQuote" -> "Quote deleted successfully"

FailureToast(name) ==
    CASE name = "addBook" -> "Failed to add book"
      [] name = "updateBook" -> "Failed to update book"
      [] name = "deleteBook" -> "Failed to delete book"
      [] name = "addQuote" -> "Failed to add quote"
      [] name = "updateQuoteDiscussion" -> "Failed to update discussion"
      [] name = "deleteQuote" -> "Failed to delete quote"

\* a handler that returns early and calls its fetch functions all the same
Refuse_Refreshing(name, pc, message) ==
    /\ ops' = Append(ops, Op(name, pc))
    /\ toast' = message
    /\ requests' = requests @@
                      [id \in {<<Len(ops) + 1, n>> : n \in DOMAIN Refreshes(name)} |->
                          Get(Len(ops) + 1, Refreshes(name)[id[2]])]

\* the handler names op `name`, refused before any request
Refuse(name, pc, message) ==
    /\ ops' = Append(ops, Op(name, pc))
    /\ toast' = message
    /\ UNCHANGED requests

\* a handler that calls its fetch functions without awaiting the write
Issue_RefreshingAtOnce(name, method, url, key, body) ==
    /\ ops' = Append(ops, Op(name, "awaiting"))
    /\ requests' = requests @@
                      (WriteId(Len(ops) + 1) :> Request(Len(ops) + 1, method, url, key, body))
                      @@ [id \in {<<Len(ops) + 1, n>> : n \in DOMAIN Refreshes(name)} |->
                             Get(Len(ops) + 1, Refreshes(name)[id[2]])]
    /\ UNCHANGED toast

\* the handler issues its write and awaits it
Issue(name, method, url, key, body) ==
    /\ ops' = Append(ops, Op(name, "awaiting"))
    /\ requests' = requests @@
                      (WriteId(Len(ops) + 1) :> Request(Len(ops) + 1, method, url, key, body))
    /\ UNCHANGED toast

untouched == <<books, quotes, booksWithQuotes, loading, cancelled, loadPc,
               localStorage, serverBooks, serverQuotes>>

MayAct == ~cancelled /\ Len(ops) < MaxOps

AddBook(bookForm) ==
    /\ MayAct
    /\ IF ~Truthy(Trim(bookForm.title))
         THEN Refuse("addBook", "invalid", "Title is required")
         ELSE Issue("addBook", "POST", "books", <<>>, bookForm)
    /\ UNCHANGED untouched

\* an addBook that joins the addBook already in flight instead of posting again
AddBookAgain_Deduplicating(bookForm) ==
    /\ ~cancelled /\ Len(ops) < MaxAddBooks
    /\ IF ~Truthy(Trim(bookForm.title))
         THEN Refuse("addBook", "invalid", "Title is required")
         ELSE IF \E k \in OpIds : ops[k].name = "addBook" /\ ops[k].pc = "awaiting"
                THEN Refuse("addBook", "awaiting", toast)
                ELSE Issue("addBook", "POST", "books", <<>>, bookForm)
    /\ UNCHANGED untouched

\* addBook called by a click on the Add button of the dialog, which stays
\* open, with the form as typed, until a POST has succeeded: nothing keeps the
\* button from being clicked again while a POST is in flight
AddBookAgain(bookForm) ==
    /\ ~cancelled /\ Len(ops) < MaxAddBooks
    /\ IF ~Truthy(Trim(bookForm.title))
         THEN Refuse("addBook", "invalid", "Title is required")
         ELSE Issue("addBook", "POST", "books", <<>>, bookForm)
    /\ UNCHANGED untouched

\* updateBook(title, updates), up to its await
UpdateBook(title, updates) ==
    Issue("updateBook", "PUT", "books", <<title>>, updates)

\* the edit dialog, opened on a listed book by handleEditBook
SubmitEditBook(book, editBookForm) ==
    /\ MayAct
    /\ book \in books
    /\ IF ~Truthy(Trim(editBookForm.title))
         THEN Refuse("updateBook", "invalid", "Title is required")
         ELSE UpdateBook(book.title, editBookForm)
    /\ UNCHANGED untouched

\* the status select of a listed book
ChangeStatus(book, value) ==
    /\ MayAct
    /\ book \in books
    /\ value # book.status
    /\ UpdateBook(book.title, [status |-> value])
    /\ UNCHANGED untouched

DeleteBook(book, confirm) ==
    /\ MayAct
    /\ book \in books
    /\ IF ~confirm
         THEN Refuse("deleteBook", "declined", toast)
         ELSE Issue("deleteBook", "DELETE", "books", <<book.title>>, NoBody)
    /\ UNCHANGED untouched

\* the add-quote dialog, opened by a click on a card (setSelectedBook)
AddQuote(selectedBook, quoteForm) ==
    /\ MayAct
    /\ selectedBook \in booksWithQuotes
    /\ IF ~Truthy(Trim(quoteForm.text))
         THEN Refuse("addQuote", "invalid", "Quote text is required")
         ELSE Issue("addQuote", "POST", "quotes", <<>>,
                    Quote(selectedBook, quoteForm.text, quoteForm.user_id,
                          quoteForm.discussion))
    /\ UNCHANGED untouched

\* the quotes rendered on the cards: getQuotesForBook over booksWithQuotes
ShownQuotes == {q \in quotes : q.book_title \in booksWithQuotes}

UpdateQuoteDiscussion(quote, discussion) ==
    /\ MayAct
    /\ quote \in ShownQuotes
    /\ Issue("updateQuoteDiscussion", "PUT", "quotes", <<quote.book_title, quote.text>>,
             [discussion |-> discussion])
    /\ UNCHANGED untouched

DeleteQuote(quote, confirm) ==
    /\ MayAct
    /\ quote \in ShownQuotes
    /\ IF ~confirm
         THEN Refuse("deleteQuote", "declined", toast)
         ELSE Issue("deleteQuote", "DELETE", "quotes", <<quote.book_title, quote.text>>,
                    NoBody)
    /\ UNCHANGED untouched

\* the axios.get calls of the fetch functions a handler calls in a row
Gets(op, urls) == [id \in {<<op, n>> : n \in DOMAIN urls} |-> Get(op, urls[id[2]])]

\* the try block after the awaited write: toast.success, then the refreshes,
\* each of which runs up to its own await
WriteThen(i) ==
    LET op == requests[i].op
    IN /\ toast' = SuccessToast(ops[op].name)
       /\ ops' = [ops EXCEPT ![op].pc = "succeeded"]
       /\ requests' = Delivered(i, FALSE) @@ Gets(op, Refreshes(ops[op].name))

\* a handler that refreshes after its try/catch rather than inside the try
WriteCatch_Refreshing(i) ==
    LET op == requests[i].op
    IN /\ toast' = FailureToast(ops[op].name)
       /\ ops' = [ops EXCEPT ![op].pc = "failed"]
       /\ requests' = Delivered(i, TRUE) @@ Gets(op, Refreshes(ops[op].name))

\* the catch block of the handler
WriteCatch(i) ==
    LET op == requests[i].op
    IN /\ toast' = FailureToast(ops[op].name)
       /\ ops' = [ops EXCEPT ![op].pc = "failed"]
       /\ requests' = Delivered(i, TRUE)

\* the awaited write of a handler settles
WriteSettle(i, rejected) ==
    /\ ~IsGet(i) /\ MaySettle(i, rejected)
    /\ IF ~rejected THEN WriteThen(i) ELSE WriteCatch(i)
    /\ UNCHANGED untouched

-----------------------------------------------------------------------------

Next ==
    \/ \E i \in ReqIds : ServerReply(i)
    \/ \E i \in ReqIds, rejected \in BOOLEAN : LoadAllSettle(i, rejected)
    \/ \E i \in ReqIds, rejected \in BOOLEAN : FetchSettle(i, rejected)
    \/ \E i \in ReqIds, rejected \in BOOLEAN : WriteSettle(i, rejected)
    \/ Teardown
    \/ \E f \in BookForms : AddBook(f)
    \/ \E b \in books, f \in EditForms : SubmitEditBook(b, f)
    \/ \E b \in books, v \in StatusInputs : ChangeStatus(b, v)
    \/ \E b \in books, c \in BOOLEAN : DeleteBook(b, c)
    \/ \E t \in booksWithQuotes, f \in QuoteForms : AddQuote(t, f)
    \/ \E q \in quotes, d \in Discussions : UpdateQuoteDiscussion(q, d)
    \/ \E q \in quotes, c \in BOOLEAN : DeleteQuote(q, c)

Spec == Init /\ [][Next]_vars

\* as long as a GET of loadAll has not settled, one of them settles in the
\* end, and the continuation awaiting it is then run by the event loop
LoadFairness ==
    WF_vars(\E i \in LoadIds, rejected \in BOOLEAN : LoadAllSettle(i, rejected))

FairSpec == Init /\ [][Next]_vars /\ LoadFairness

\* the page once loadAll has applied its three responses
LoadedInit ==
    /\ serverBooks = InitServerBooks
    /\ serverQuotes = InitServerQuotes
    /\ books = ServerSnapshot("books")
    /\ quotes = ServerSnapshot("quotes")
    /\ booksWithQuotes = ServerSnapshot("booksWithQuotes")
    /\ loading = FALSE
    /\ cancelled = FALSE
    /\ loadPc = "done"
    /\ localStorage \in InitialCaches
    /\ requests = [i \in LoadIds |->
                      [Get(0, <<"books", "quotes", "booksWithQuotes">>[i[2]]) EXCEPT
                          !.status = "ok", !.delivered = TRUE,
                          !.data = ServerSnapshot(<<"books", "quotes", "booksWithQuotes">>[i[2]])]]
    /\ ops = <<>>
    /\ toast = "none"

\* the runs in which the user, on the loaded page, does nothing but click Add
\* in the add-book dialog
NextAddBooks ==
    \/ \E i \in ReqIds : ServerReply(i)
    \/ \E i \in ReqIds, rejected \in BOOLEAN : FetchSettle(i, rejected)
    \/ \E i \in ReqIds, rejected \in BOOLEAN : WriteSettle(i, rejected)
    \/ \E f \in BookForms : AddBookAgain(f)

SpecAddBooks == LoadedInit /\ [][NextAddBooks]_vars

-----------------------------------------------------------------------------
(* Vocabulary of the properties *)

Coll(url) ==
    CASE url = "books" -> books
      [] url = "quotes" -> quotes
      [] url = "booksWithQuotes" -> booksWithQuotes

\* the requests handler invocation k has issued to re-fetch a collection
RefreshesOf(k) == {i \in ReqIds : requests[i].op = k /\ IsGet(i)}
RefreshUrls(k) == {requests[i].url : i \in RefreshesOf(k)}

\* this step settles one of the three promises of loadAll
LoadStep == \E j \in LoadIds : ~requests[j].delivered /\ requests'[j].delivered

\* this step belongs to an invocation of handler `name`: the call itself, or
\* progress of a request the invocation has issued
OpStep(name) ==
    \/ Len(ops') = Len(ops) + 1 /\ ops'[Len(ops')].name = name
    \/ \E i \in ReqIds : /\ requests[i].op \in OpIds
                         /\ ops[requests[i].op].name = name
                         /\ requests'[i] # requests[i]

\* this step runs the catch block of a handler whose write was rejected
WriteRejectedStep(i) ==
    /\ ~IsGet(i) /\ ~requests[i].delivered
    /\ requests'[i].delivered /\ requests'[i].status = "err"

\* this step runs the code awaiting GET i with the GET rejected
GetRejectedStep(i) ==
    /\ ~requests[i].delivered /\ requests'[i].delivered
    /\ IsGet(i) /\ requests'[i].status = "err"

\* this step runs the code awaiting GET i with the GET fulfilled
GetFulfilledStep(i) ==
    /\ ~requests[i].delivered /\ requests'[i].delivered
    /\ IsGet(i) /\ requests'[i].status = "ok"

\* the collection a step leaves behind
CollNext(url) ==
    CASE url = "books" -> books'
      [] url = "quotes" -> quotes'
      [] url = "booksWithQuotes" -> booksWithQuotes'

AllLoadDelivered == \A j \in LoadIds : requests[j].delivered

\* what falling back to the cache would give for a collection
CacheUsable(url) == CachedTruthy(localStorage[url]) /\ ~JSONparseThrows(localStorage[url])

\* the entry under a key is present and is not JSON
CacheCorrupt(url) == CachedTruthy(localStorage[url]) /\ JSONparseThrows(localStorage[url])

\* nothing is stored under a key
CacheAbsent(url) == ~CachedTruthy(localStorage[url])

Titles(bs) == {b.title : b \in bs}

\* a string of no characters or of spaces only
IsBlank(s) == \A n \in DOMAIN s : s[n] = " "

\* this step is a handler call that its validation refused
RefusedInvalidStep ==
    Len(ops') = Len(ops) + 1 /\ ops'[Len(ops')].pc = "invalid"

-----------------------------------------------------------------------------
(* Properties of the initial load *)

\* C1: whenever loading is false, every collection has been populated by the
\* initial load: from the live response of its fetch, or, when that fetch
\* failed, from its cached snapshot.  (States in which no handler has run, so
\* that the collections are loadAll's doing alone.)
C1_LoadedMeansPopulated ==
    (loading = FALSE /\ ops = <<>>) =>
        \A url \in Keys :
            LET r == requests[LoadReq(url)]
            IN /\ r.delivered
               /\ r.status = "ok" => Coll(url) = r.data
               /\ (r.status = "err" /\ CacheUsable(url)) =>
                      Coll(url) = JSONparse(localStorage[url])

\* C2: once the view is torn down, no settlement of loadAll's promises changes
\* books, quotes, booksWithQuotes or loading.
C2_CancelledLoadWritesNothing ==
    [][(cancelled /\ LoadStep) =>
          UNCHANGED <<books, quotes, booksWithQuotes, loading>>]_vars

\* torn down while loadAll was awaiting, then all three fetches fulfilled:
\* everything is still as initialised
C2_Witness ==
    /\ cancelled /\ loadPc = "done" /\ ops = <<>>
    /\ \A j \in LoadIds : requests[j].delivered /\ requests[j].status = "ok"
    /\ requests[LoadReq("books")].data # {}
    /\ books = {} /\ quotes = {} /\ booksWithQuotes = {} /\ loading = TRUE

\* C6: when the three fetches have settled, some fulfilled and some rejected,
\* each collection whose fetch fulfilled holds its live response and each
\* collection whose fetch was rejected holds its cached snapshot.
C6_PartialFailureKeepsSuccesses ==
    (AllLoadDelivered /\ ~cancelled /\ ops = <<>>
        /\ (\E j \in LoadIds : requests[j].status = "ok")
        /\ (\E j \in LoadIds : requests[j].status = "err")) =>
        \A url \in Keys :
            LET r == requests[LoadReq(url)]
            IN IF r.status = "ok"
                 THEN Coll(url) = r.data
                 ELSE CacheUsable(url) => Coll(url) = JSONparse(localStorage[url])

\* C7: loading is true as long as one of the three fetches of loadAll has not
\* settled, and false once all three have (the view still being mounted).
C7_LoadingUntilAllSettled ==
    /\ loading = FALSE => AllLoadDelivered
    /\ (AllLoadDelivered /\ ~cancelled) => loading = FALSE

\* C8: a settlement of loadAll's promises either leaves the three collections
\* alone or sets all three to the responses of the three fetches.
C8_LoadAppliesAllOrNothing ==
    [][LoadStep =>
          \/ UNCHANGED <<books, quotes, booksWithQuotes>>
          \/ /\ books' = requests[LoadReq("books")].data
             /\ quotes' = requests[LoadReq("quotes")].data
             /\ booksWithQuotes' = requests[LoadReq("booksWithQuotes")].data]_vars

\* loadAll has applied its three responses
C8_Witness ==
    /\ loadPc = "done" /\ loading = FALSE /\ ops = <<>>
    /\ books = requests[LoadReq("books")].data /\ books # {}
    /\ quotes = requests[LoadReq("quotes")].data /\ quotes # {}
    /\ booksWithQuotes = requests[LoadReq("booksWithQuotes")].data /\ booksWithQuotes # {}

-----------------------------------------------------------------------------
(* Properties of the mutations *)

Invocations(name) == {k \in OpIds : ops[k].name = name}

\* invocation k has succeeded and every refresh it issued has been applied
Completed(k) ==
    /\ ops[k].pc = "succeeded"
    /\ \A i \in RefreshesOf(k) : requests[i].delivered /\ requests[i].status = "ok"

\* the write request of invocation k
WriteOf(k) == WriteId(k)

\* C3: no step of a deleteBook invocation (the call, its DELETE, the refresh it
\* triggers) changes the quotes collection or the booksWithQuotes collection.
C3_DeleteBookKeepsOrphans ==
    [][OpStep("deleteBook") => UNCHANGED <<quotes, booksWithQuotes>>]_vars

\* a book was deleted, the server dropped its quotes with it, and the client
\* still shows the card of that title with its quotes
C3_Witness ==
    \E k \in Invocations("deleteBook") :
        LET t == requests[WriteOf(k)].key[1]
        IN /\ Completed(k)
           /\ t \notin Titles(books) /\ t \notin Titles(serverBooks)
           /\ t \notin ServerSnapshot("booksWithQuotes")
           /\ t \in booksWithQuotes
           /\ \E q \in quotes : q.book_title = t

\* C4: a deleteBook invocation that has succeeded has issued exactly one
\* refresh fetch, of books; one that has not succeeded has issued none.
C4_DeleteBookRefreshesBooksOnly ==
    \A k \in Invocations("deleteBook") :
        IF ops[k].pc = "succeeded"
          THEN Cardinality(RefreshesOf(k)) = 1 /\ RefreshUrls(k) = {"books"}
          ELSE RefreshesOf(k) = {}

C4_Witness ==
    \E k \in Invocations("deleteBook") :
        /\ ops[k].pc = "succeeded"
        /\ Cardinality(RefreshesOf(k)) = 1
        /\ \A i \in RefreshesOf(k) : requests[i].url = "books" /\ requests[i].delivered

\* C5: the step on which the write of a mutation is rejected issues no request,
\* raises the error notification of that mutation and leaves books, quotes and
\* booksWithQuotes as they were; and a failed invocation never has a refresh.
C5_FailedWriteChangesNothing ==
    [][/\ \A i \in ReqIds :
             WriteRejectedStep(i) =>
                 /\ DOMAIN requests' = DOMAIN requests
                 /\ toast' = FailureToast(ops[requests[i].op].name)
                 /\ UNCHANGED <<books, quotes, booksWithQuotes>>
       /\ \A k \in DOMAIN ops' :
             ops'[k].pc = "failed" =>
                 ~\E i \in DOMAIN requests' : requests'[i].op = k /\ requests'[i].method = "GET"
      ]_vars

\* a write was rejected after the collections had been loaded
C5_Witness ==
    \E k \in OpIds :
        /\ ops[k].pc = "failed"
        /\ toast = FailureToast(ops[k].name)
        /\ requests[WriteOf(k)].delivered /\ requests[WriteOf(k)].status = "err"
        /\ RefreshesOf(k) = {}
        /\ books # {}

\* C9: an updateQuoteDiscussion invocation that has succeeded has issued exactly
\* one refresh fetch, of quotes, and no step of the invocation changes books,
\* booksWithQuotes or their cache entries.
C9_UpdateDiscussionRefreshesQuotesOnly ==
    [][/\ OpStep("updateQuoteDiscussion") =>
             UNCHANGED <<books, booksWithQuotes, localStorage["books"],
                         localStorage["booksWithQuotes"]>>
       /\ \A k \in DOMAIN ops' :
             ops'[k].name = "updateQuoteDiscussion" =>
                 LET gets == {i \in DOMAIN requests' :
                                 requests'[i].op = k /\ requests'[i].method = "GET"}
                 IN IF ops'[k].pc = "succeeded"
                      THEN Cardinality(gets) = 1 /\ \A i \in gets : requests'[i].url = "quotes"
                      ELSE gets = {}
      ]_vars

\* the discussion was updated and the refreshed quotes show it
C9_Witness ==
    \E k \in Invocations("updateQuoteDiscussion") :
        /\ Completed(k)
        /\ RefreshUrls(k) = {"quotes"}
        /\ \E q \in quotes : q.discussion = requests[WriteOf(k)].body.discussion

\* C10: a deleteQuote invocation that has succeeded has issued exactly a fetch
\* of quotes and a fetch of booksWithQuotes, and no fetch of books.
C10_DeleteQuoteRefreshesCards ==
    \A k \in Invocations("deleteQuote") :
        ops[k].pc = "succeeded" =>
            /\ RefreshUrls(k) = {"quotes", "booksWithQuotes"}
            /\ Cardinality(RefreshesOf(k)) = 2

\* the last quote of a book was deleted and its card has disappeared
C10_Witness ==
    \E k \in Invocations("deleteQuote") :
        LET t == requests[WriteOf(k)].key[1]
        IN /\ Completed(k)
           /\ RefreshUrls(k) = {"quotes", "booksWithQuotes"}
           /\ ~\E q \in serverQuotes : q.book_title = t
           /\ t \notin booksWithQuotes
           /\ ~\E q \in quotes : q.book_title = t

\* C11: an addBook or updateBook invocation that has succeeded has issued
\* exactly two refresh fetches, one of books and one of booksWithQuotes, and
\* none of quotes.
C11_BookWritesRefreshBooksAndCards ==
    \A k \in Invocations("addBook") \cup Invocations("updateBook") :
        ops[k].pc = "succeeded" =>
            /\ Cardinality(RefreshesOf(k)) = 2
            /\ RefreshUrls(k) = {"books", "booksWithQuotes"}

\* a book was added, both refreshes were applied and the quotes cache, which
\* only fetchQuotes writes, is still as the page found it
C11_Witness ==
    \E k \in Invocations("addBook") :
        /\ Completed(k)
        /\ Cardinality(RefreshesOf(k)) = 2
        /\ requests[WriteOf(k)].body \in books
        /\ localStorage["books"] = JSONstringify(books)
        /\ localStorage["booksWithQuotes"] = JSONstringify(booksWithQuotes)
        /\ localStorage["quotes"] = NullItem

\* C12: an addQuote invocation that has succeeded has issued exactly two
\* refresh fetches, one of quotes and one of booksWithQuotes, and none of books.
C12_AddQuoteRefreshesQuotesAndCards ==
    \A k \in Invocations("addQuote") :
        ops[k].pc = "succeeded" =>
            /\ Cardinality(RefreshesOf(k)) = 2
            /\ RefreshUrls(k) = {"quotes", "booksWithQuotes"}

\* a quote was added and the refreshed quotes show it
C12_Witness ==
    \E k \in Invocations("addQuote") :
        /\ Completed(k)
        /\ RefreshUrls(k) = {"quotes", "booksWithQuotes"}
        /\ \E q \in quotes : q.text = requests[WriteOf(k)].body.text
        /\ localStorage["books"] = NullItem

-----------------------------------------------------------------------------
(* Properties of the fetch functions and of the cache *)

C14_SuccessfulFetchMirrorsToCache ==
    [][/\ \A i \in ReqIds :
             (GetFulfilledStep(i) /\ ~IsLoad(i)) =>
                 \A url \in Keys :
                     requests[i].url = url =>
                         /\ CollNext(url) = requests[i].data
                         /\ localStorage'[url] = JSONstringify(CollNext(url))
       /\ (~cancelled /\ loadPc = "awaiting" /\ loadPc' = "done"
              /\ \A j \in LoadIds : requests'[j].status = "ok") =>
             \A url \in Keys :
                 /\ CollNext(url) = requests[LoadReq(url)].data
                 /\ localStorage'[url] = JSONstringify(CollNext(url))
      ]_vars

\* C15: when a GET is rejected while the entry under its key is present but not
\* JSON, the code awaiting it ends without throwing and the collection keeps
\* the value it had.
C15_CorruptCacheIsTreatedAsAbsent ==
    [][\A i \in ReqIds :
          (GetRejectedStep(i) /\ CacheCorrupt(requests[i].url)) =>
              /\ ~requests'[i].threw
              /\ \A url \in Keys : requests[i].url = url => CollNext(url) = Coll(url)
      ]_vars

\* C16: whenever a GET is rejected, be it one of loadAll or one of a refresh,
\* the code awaiting it ends without throwing and raises the notification that
\* names the collection of that GET (the view still being mounted).
C16_FailedFetchNotifiesByCollection ==
    [][\A i \in ReqIds :
          (GetRejectedStep(i) /\ ~cancelled) =>
              /\ ~requests'[i].threw
              /\ toast' = FetchFailedToast(requests[i].url)
      ]_vars

\* C17: no POST /books, no PUT /books carrying a title and no POST /quotes is
\* issued with an empty or whitespace-only title or text, and the handler call that
\* validation refuses issues no request and changes no collection and no cache
\* entry.
C17_BlankInputIssuesNothing ==
    [][/\ \A i \in DOMAIN requests' \ DOMAIN requests :
             LET r == requests'[i]
             IN /\ (r.url = "books" /\ r.method \in {"POST", "PUT"}
                        /\ "title" \in DOMAIN r.body) => ~IsBlank(r.body.title)
                /\ (r.url = "quotes" /\ r.method = "POST") => ~IsBlank(r.body.text)
       /\ RefusedInvalidStep =>
             UNCHANGED <<requests, books, quotes, booksWithQuotes, localStorage>>
      ]_vars

\* a blank quote text was refused after the page had loaded: no request of
\* that call exists and the collections are those of the load
C17_Witness ==
    \E k \in Invocations("addQuote") :
        /\ ops[k].pc = "invalid"
        /\ toast = "Quote text is required"
        /\ ~\E i \in ReqIds : requests[i].op = k
        /\ \A url \in Keys : Coll(url) = requests[LoadReq(url)].data /\ Coll(url) # {}

C19_FailedFetchWithoutCacheKeepsAll ==
    [][\A i \in ReqIds :
          (GetRejectedStep(i) /\ CacheAbsent(requests[i].url)) =>
              UNCHANGED <<books, quotes, booksWithQuotes>>]_vars

\* the refresh of books failed with nothing cached, and books still is what
\* the initial load had shown
C19_Witness ==
    \E i \in ReqIds :
        /\ IsGet(i) /\ ~IsLoad(i) /\ requests[i].url = "books"
        /\ requests[i].delivered /\ requests[i].status = "err"
        /\ CacheAbsent("books")
        /\ books = requests[LoadReq("books")].data /\ books # {}
        /\ quotes # {} /\ booksWithQuotes # {}
        /\ toast = FetchFailedToast("books")

\* C20: a step changes the entry under a key only if it applies the fulfilled
\* GET of that key's collection (so a rejected GET, the settlement of a write
\* and the teardown change no entry), and each entry that holds a snapshot
\* equals the latest fulfilled response for its collection: right after a
\* refresh applies its response, and right after loadAll applies its three.
C20_CacheHoldsLatestResponse ==
    [][/\ \A url \in Keys :
             localStorage'[url] # localStorage[url] =>
                 \E i \in ReqIds : GetFulfilledStep(i) /\ requests[i].url = url
       /\ \A i \in ReqIds :
             (GetFulfilledStep(i) /\ ~IsLoad(i)) =>
                 \A url \in Keys :
                     (requests[i].url = url /\ localStorage'[url].kind = "json") =>
                         localStorage'[url] = JSONstringify(requests[i].data)
       /\ (~cancelled /\ loadPc = "awaiting" /\ loadPc' = "done"
              /\ \A j \in LoadIds : requests'[j].status = "ok") =>
             \A url \in Keys :
                 localStorage'[url].kind = "json" =>
                     localStorage'[url] = JSONstringify(requests[LoadReq(url)].data)
      ]_vars

-----------------------------------------------------------------------------
(* Properties of concurrency, of loading and of the confirmations *)

\* C21: a step that changes booksWithQuotes sets it to the whole response of a
\* GET of books-with-quotes (of a refresh, or of loadAll when it applies its
\* three responses) or to the whole snapshot stored under 'booksWithQuotes'
\* when such a refresh was rejected; nothing else changes it.
C21_CardsOnlyReplacedWholesale ==
    [][booksWithQuotes' # booksWithQuotes =>
          \/ \E i \in ReqIds :
                /\ ~IsLoad(i) /\ requests[i].url = "booksWithQuotes"
                /\ \/ GetFulfilledStep(i) /\ booksWithQuotes' = requests[i].data
                   \/ /\ GetRejectedStep(i) /\ CacheUsable("booksWithQuotes")
                      /\ booksWithQuotes' = JSONparse(localStorage["booksWithQuotes"])
          \/ /\ LoadStep /\ loadPc = "awaiting" /\ loadPc' = "done"
             /\ booksWithQuotes' = requests[LoadReq("booksWithQuotes")].data
      ]_vars

\* the last quote of a card was deleted and the refreshed quotes are empty,
\* while the card is still shown because its own refresh has not arrived
C21_Witness ==
    \E k \in Invocations("deleteQuote") :
        /\ ops[k].pc = "succeeded"
        /\ \E i \in RefreshesOf(k) :
              requests[i].url = "quotes" /\ requests[i].delivered /\ requests[i].status = "ok"
        /\ \E i \in RefreshesOf(k) :
              requests[i].url = "booksWithQuotes" /\ ~requests[i].delivered
        /\ quotes = {} /\ serverQuotes = {}
        /\ booksWithQuotes = {TitleD}

\* C22: whenever a refresh GET of a handler invocation exists, the write of
\* that invocation has been answered with success and the handler has received
\* that answer: no refresh exists while the write is in flight.
C22_RefreshesFollowTheWrite ==
    \A i \in ReqIds :
        (IsGet(i) /\ ~IsLoad(i)) =>
            /\ requests[WriteOf(requests[i].op)].delivered
            /\ requests[WriteOf(requests[i].op)].status = "ok"
            /\ ops[requests[i].op].pc = "succeeded"

\* the server has stored the added book and answered, the handler has not yet
\* received the answer, and no refresh has been issued
C22_Witness ==
    \E k \in Invocations("addBook") :
        /\ ops[k].pc = "awaiting"
        /\ requests[WriteOf(k)].status = "ok" /\ ~requests[WriteOf(k)].delivered
        /\ requests[WriteOf(k)].body \in serverBooks
        /\ RefreshesOf(k) = {}
        /\ loadPc = "done" /\ requests[WriteOf(k)].body \notin books

\* C23: fetches of one collection are not sequenced: whenever the fulfilled
\* response of a GET arrives while another GET of the same collection has been
\* issued (by loadAll or by a refresh, still in flight or already answered),
\* the collection becomes that response, so that the response arriving last is
\* the one the collection ends up with (the view still being mounted).
C23_LastArrivalWins ==
    [][\A i \in ReqIds :
          (/\ GetFulfilledStep(i) /\ ~cancelled
           /\ \E j \in ReqIds \ {i} : IsGet(j) /\ requests[j].url = requests[i].url) =>
              \A url \in Keys :
                  requests[i].url = url => CollNext(url) = requests[i].data
      ]_vars

\* C24: the refreshes of one invocation are independent: whatever has become
\* of its siblings, a refresh whose GET is fulfilled sets its collection and
\* its cache entry to the response, a refresh whose GET is rejected sets its
\* collection to the snapshot stored under its key or, without one, leaves it,
\* and neither touches the collection or the cache entry of a sibling.
C24_SiblingRefreshesAreIndependent ==
    [][\A i \in ReqIds :
          (~requests[i].delivered /\ requests'[i].delivered /\ IsGet(i) /\ ~IsLoad(i)) =>
              \A url \in Keys :
                  IF requests[i].url = url
                    THEN IF requests'[i].status = "ok"
                           THEN /\ CollNext(url) = requests[i].data
                                /\ localStorage'[url] = JSONstringify(requests[i].data)
                           ELSE /\ CollNext(url) = IF CacheUsable(url)
                                                     THEN JSONparse(localStorage[url])
                                                     ELSE Coll(url)
                                /\ localStorage'[url] = localStorage[url]
                    ELSE /\ CollNext(url) = Coll(url)
                         /\ localStorage'[url] = localStorage[url]
      ]_vars

\* of the two refreshes of an addQuote, that of quotes failed with nothing
\* cached and quotes still lacks the new quote, while that of the cards
\* succeeded and is mirrored in the cache
C24_Witness ==
    \E k \in Invocations("addQuote") :
        /\ \E i \in RefreshesOf(k) :
              requests[i].url = "quotes" /\ requests[i].delivered /\ requests[i].status = "err"
        /\ \E i \in RefreshesOf(k) :
              /\ requests[i].url = "booksWithQuotes"
              /\ requests[i].delivered /\ requests[i].status = "ok"
        /\ localStorage["booksWithQuotes"] = JSONstringify(booksWithQuotes)
        /\ booksWithQuotes # {}
        /\ localStorage["quotes"] = NullItem
        /\ quotes # {} /\ quotes # serverQuotes

\* C25: addBook calls are neither queued nor deduplicated: every call that
\* passed validation has issued a POST /books of its own at once, also while
\* the POST of an earlier call is in flight, and every call that has succeeded
\* has issued its own two refresh fetches, of books and of booksWithQuotes.
C25_EachAddBookPostsAndRefreshes ==
    \A k \in Invocations("addBook") :
        ops[k].pc # "invalid" =>
            /\ WriteOf(k) \in ReqIds
            /\ requests[WriteOf(k)].method = "POST" /\ requests[WriteOf(k)].url = "books"
            /\ IF ops[k].pc = "succeeded"
                 THEN Cardinality(RefreshesOf(k)) = 2
                          /\ RefreshUrls(k) = {"books", "booksWithQuotes"}
                 ELSE RefreshesOf(k) = {}

\* Add was clicked twice with the same form: the first POST is still in
\* flight, and the second, issued meanwhile, has succeeded and triggered its
\* own two refreshes
C25_Witness ==
    /\ Len(ops) = 2
    /\ ops[1].name = "addBook" /\ ops[1].pc = "awaiting"
    /\ ops[2].name = "addBook" /\ ops[2].pc = "succeeded"
    /\ ~requests[WriteOf(1)].delivered
    /\ requests[WriteOf(1)].method = "POST" /\ requests[WriteOf(2)].method = "POST"
    /\ requests[WriteOf(1)].body = requests[WriteOf(2)].body
    /\ RefreshUrls(2) = {"books", "booksWithQuotes"}
    /\ RefreshesOf(1) = {}

\* C26: in every run in which the view is not torn down and each of the three
\* GETs of loadAll settles, loading becomes false; and no step whatever, of a
\* handler or of a refresh, makes loading true once it is false.
C26_LoadingEndsForGood ==
    /\ <>(cancelled \/ loading = FALSE)
    /\ [][loading = FALSE => loading' = FALSE]_vars

\* the load failed, loading is false, and it still is after a book was added
\* and both refreshes were applied
C26_Witness ==
    /\ ~cancelled /\ loading = FALSE /\ loadPc = "done"
    /\ \E j \in LoadIds : requests[j].delivered /\ requests[j].status = "err"
    /\ \E k \in Invocations("addBook") : Completed(k) /\ RefreshesOf(k) # {}

\* this step is a handler call that the user's answer to window.confirm ended
DeclinedStep ==
    Len(ops') = Len(ops) + 1 /\ ops'[Len(ops')].pc = "declined"

\* C27: the call of deleteBook or deleteQuote in which the user declines the
\* confirmation issues no request, neither the DELETE nor a refresh, and
\* changes no collection and no cache entry; and no request is ever issued for
\* it afterwards.
C27_DeclinedDeleteDoesNothing ==
    [][/\ DeclinedStep =>
             /\ ops'[Len(ops')].name \in {"deleteBook", "deleteQuote"}
             /\ UNCHANGED <<requests, books, quotes, booksWithQuotes, localStorage>>
       /\ requests' # requests =>
             \A i \in DOMAIN requests' \ DOMAIN requests :
                 requests'[i].op \in DOMAIN ops' /\ ops'[requests'[i].op].pc # "declined"
      ]_vars

\* the deletion of a quote was declined on the loaded page: no request of
\* that call exists, and client and server still hold the quote
C27_Witness ==
    \E k \in Invocations("deleteQuote") :
        /\ ops[k].pc = "declined"
        /\ ~\E i \in ReqIds : requests[i].op = k
        /\ toast = "none"
        /\ quotes = serverQuotes /\ quotes # {}
        /\ \A url \in Keys : Coll(url) = requests[LoadReq(url)].data

====
